---- MODULE Spec2Model ----
(***************************************************************************)
(* Model of the architecture-diagram scripts:                              *)
(*   scripts/generate_architecture.py  (parse -> render -> patch README)   *)
(*   scripts/graph_diff.py             (parse -> diff -> render report)    *)
(*                                                                         *)
(* Python strings are sequences of one-character strings, so that the      *)
(* substring tests, regular expressions and splits of the code are         *)
(* computed character by character.  A Python dict is a sequence of        *)
(* <<key, value>> pairs with distinct keys, in insertion order.            *)
(***************************************************************************)
EXTENDS Integers, Sequences, FiniteSets, TLC

\* ------------------------------------------------------------------------
\* Bounds of the model
\* ------------------------------------------------------------------------
MaxRes == 2
MaxConn == 2
MaxBlocks == 2
MaxLines == 3
MaxWrites == 2

\* ------------------------------------------------------------------------
\* Strings
\* ------------------------------------------------------------------------
S_http == <<"h","t","t","p">>
S_colonslashes == <<":","/","/">>
S_armopen == <<"[","r","e","f","e","r","e","n","c","e","(","'">>
S_armclose == <<"'",")">>
S_containers == <<"c","o","n","t","a","i","n","e","r","s">>
S_rediscaches == <<"r","e","d","i","s","c","a","c","h","e","s">>
S_sqldatabases == <<"s","q","l","d","a","t","a","b","a","s","e","s">>
S_mongodatabases == <<"m","o","n","g","o","d","a","t","a","b","a","s","e","s">>
S_applications == <<"a","p","p","l","i","c","a","t","i","o","n","s">>
S_dependsOn == <<"d","e","p","e","n","d","s","O","n">>
S_connection == <<"c","o","n","n","e","c","t","i","o","n">>
S_unknown == <<"u","n","k","n","o","w","n">>
EmptyStr == <<>>
\* Python None where a string is expected
NoneVal == <<"None">>

\* Code-point order of the characters that occur in strings that are
\* compared (str.__lt__).
UpperChars == <<"A","B","C","D","E","F","G","H","I","J","K","L","M",
   "N","O","P","Q","R","S","T","U","V","W","X","Y",
  "Z">>
LowerChars == <<"a","b","c","d","e","f","g","h","i","j","k","l","m",
   "n","o","p","q","r","s","t","u","v","w","x","y","z">>
AsciiOrder ==
  <<"'","(",")","-",".","/","0","1","2","3","4","5","6","7","8","9",":">>
  \o UpperChars \o <<"[","]","_">> \o LowerChars

CharRankOf ==
  [c \in {AsciiOrder[i] : i \in 1..Len(AsciiOrder)} |->
     CHOOSE i \in 1..Len(AsciiOrder) : AsciiOrder[i] = c]

CharRank(c) == CharRankOf[c]

\* \w of the re module, over the characters of the model.
WordChars ==
  {"0","1","2","3","4","5","6","7","8","9","_"}
    \cup {UpperChars[i] : i \in 1..26} \cup {LowerChars[i] : i \in 1..26}

LowerOfUpper ==
  [c \in {UpperChars[i] : i \in 1..26} |->
     LowerChars[CHOOSE i \in 1..26 : UpperChars[i] = c]]

LowerChar(c) == IF c \in DOMAIN LowerOfUpper THEN LowerOfUpper[c] ELSE c

\* str.lower()
Lower(s) == [i \in 1..Len(s) |-> LowerChar(s[i])]

\* sub in s
Contains(s, sub) ==
  \E i \in 0..(Len(s) - Len(sub)) : SubSeq(s, i + 1, i + Len(sub)) = sub

StartsWith(s, pre) == Len(pre) <= Len(s) /\ SubSeq(s, 1, Len(pre)) = pre

\* s.endswith(suf)
EndsWith(s, suf) ==
  Len(suf) <= Len(s) /\ SubSeq(s, Len(s) - Len(suf) + 1, Len(s)) = suf

\* s[n:]
Drop(s, n) == SubSeq(s, n + 1, Len(s))

\* str.__lt__ : lexicographic by code point
RECURSIVE StrLess(_, _)
StrLess(a, b) ==
  IF b = <<>> THEN FALSE
  ELSE IF a = <<>> THEN TRUE
  ELSE IF a[1] = b[1] THEN StrLess(Tail(a), Tail(b))
  ELSE CharRank(a[1]) < CharRank(b[1])

\* s.rstrip("/")
RECURSIVE RStripSlash(_)
RStripSlash(s) ==
  IF s # <<>> /\ s[Len(s)] = "/" THEN RStripSlash(SubSeq(s, 1, Len(s) - 1))
  ELSE s

\* s.rsplit("/", 1)[-1]
RSplitLast(s) ==
  IF \E i \in 1..Len(s) : s[i] = "/"
  THEN LET k == CHOOSE i \in 1..Len(s) :
                  s[i] = "/" /\ \A j \in (i + 1)..Len(s) : s[j] # "/"
       IN Drop(s, k)
  ELSE s

\* s.rstrip("/").rsplit("/", 1)[-1]
LastSegment(s) == RSplitLast(RStripSlash(s))

\* Length of the longest prefix of s whose characters all satisfy InClass.
RunLen(s, class) ==
  CHOOSE n \in 0..Len(s) :
    /\ \A i \in 1..n : s[i] \in class
    /\ (n < Len(s) => s[n + 1] \notin class)

\* Rest of the string after "http://" or "https://", or <<>> when the
\* prefix does not match.
UrlRest(s) ==
  IF StartsWith(s, S_http \o S_colonslashes) THEN Drop(s, 7)
  ELSE IF StartsWith(s, S_http \o <<"s">> \o S_colonslashes) THEN Drop(s, 8)
  ELSE <<>>

HostChars == {AsciiOrder[i] : i \in 1..Len(AsciiOrder)} \ {":", "/"}

\* re.match(r"https?://([^:/]+)", s).group(1), or <<>> when there is no
\* match (a match always has a non-empty group).
UrlHostname(s) ==
  LET rest == UrlRest(s) IN SubSeq(rest, 1, RunLen(rest, HostChars))

UrlMatch(s) == UrlHostname(s) # <<>>

\* re.match(r"\[reference\('(\w+)'\)", s).group(1), or <<>> when there is
\* no match.
ArmRefSym(s) ==
  IF StartsWith(s, S_armopen)
  THEN LET rest == Drop(s, Len(S_armopen))
           n == RunLen(rest, WordChars)
       IN IF n > 0 /\ StartsWith(Drop(rest, n), S_armclose)
          THEN SubSeq(rest, 1, n) ELSE <<>>
  ELSE <<>>

ArmMatch(s) == ArmRefSym(s) # <<>>

\* ------------------------------------------------------------------------
\* Dicts
\* ------------------------------------------------------------------------
Has(d, k) == \E i \in 1..Len(d) : d[i][1] = k

\* d.get(k, default)
Get(d, k, default) ==
  IF Has(d, k) THEN d[CHOOSE i \in 1..Len(d) : d[i][1] = k][2] ELSE default

\* d[k] = v
DictSet(d, k, v) ==
  IF Has(d, k) THEN [i \in 1..Len(d) |-> IF d[i][1] = k THEN <<k, v>> ELSE d[i]]
  ELSE Append(d, <<k, v>>)

Keys(d) == {d[i][1] : i \in 1..Len(d)}

Range(s) == {s[i] : i \in 1..Len(s)}


\* sorted(S) for a set of strings
RECURSIVE SortedStrs(_)
SortedStrs(S) ==
  IF S = {} THEN <<>>
  ELSE LET m == CHOOSE x \in S : \A y \in S \ {x} : StrLess(x, y)
       IN <<m>> \o SortedStrs(S \ {m})

\* tuple.__lt__ on (str, str)
PairLess(a, b) == StrLess(a[1], b[1]) \/ (a[1] = b[1] /\ StrLess(a[2], b[2]))

\* sorted(S) for a set of (str, str) tuples
RECURSIVE SortedPairs(_)
SortedPairs(S) ==
  IF S = {} THEN <<>>
  ELSE LET m == CHOOSE x \in S : \A y \in S \ {x} : PairLess(x, y)
       IN <<m>> \o SortedPairs(S \ {m})

\* ------------------------------------------------------------------------
\* JSON keys
\* ------------------------------------------------------------------------
K_id == <<"i","d">>
K_name == <<"n","a","m","e">>
K_type == <<"t","y","p","e">>
K_sourceId == <<"s","o","u","r","c","e","I","d">>
K_image == <<"i","m","a","g","e">>
K_targetId == <<"t","a","r","g","e","t","I","d">>

\* ------------------------------------------------------------------------
\* Categorisation: the three code paths
\* ------------------------------------------------------------------------
Categories == {"container", "datastore", "application", "other"}

\* graph_diff.categorize
categorize(res_type) ==
  LET t == Lower(res_type) IN
  IF Contains(t, S_containers) THEN "container"
  ELSE IF \E ds \in {S_rediscaches, S_sqldatabases, S_mongodatabases} :
            Contains(t, ds)
       THEN "datastore"
  ELSE IF Contains(t, S_applications) /\ ~Contains(t, S_containers)
       THEN "application"
  ELSE "other"

\* the chain of parse_bicep without .lower()
bicep_category_case_sensitive(resource_type) ==
  IF Contains(resource_type, S_containers) THEN "container"
  ELSE IF Contains(resource_type, S_rediscaches) THEN "datastore"
  ELSE IF Contains(resource_type, S_sqldatabases) THEN "datastore"
  ELSE IF Contains(resource_type, S_mongodatabases) THEN "datastore"
  ELSE IF Contains(resource_type, S_applications)
          /\ ~Contains(resource_type, S_containers)
       THEN "application"
  ELSE "other"

\* the if/elif chain of parse_bicep
bicep_category(resource_type) ==
  IF Contains(Lower(resource_type), S_containers) THEN "container"
  ELSE IF Contains(Lower(resource_type), S_rediscaches) THEN "datastore"
  ELSE IF Contains(Lower(resource_type), S_sqldatabases) THEN "datastore"
  ELSE IF Contains(Lower(resource_type), S_mongodatabases) THEN "datastore"
  ELSE IF Contains(Lower(resource_type), S_applications)
          /\ ~Contains(Lower(resource_type), S_containers)
       THEN "application"
  ELSE "other"

\* the if/elif chain of parse_rad_graph_output
rad_category(res_type) ==
  IF Contains(Lower(res_type), S_containers) THEN "container"
  ELSE IF Contains(Lower(res_type), S_rediscaches)
          \/ Contains(Lower(res_type), S_sqldatabases)
          \/ Contains(Lower(res_type), S_mongodatabases)
       THEN "datastore"
  ELSE IF Contains(Lower(res_type), S_applications)
          /\ ~Contains(Lower(res_type), S_containers)
       THEN "application"
  ELSE "other"

\* ------------------------------------------------------------------------
\* graph_diff.py : helpers
\* ------------------------------------------------------------------------
EmptyGraph == [resources |-> <<>>, connections |-> <<>>]

\* The resources dict built by the first loop of parse_graph.
RECURSIVE parse_graph_resources(_, _)
parse_graph_resources(rs, acc) ==
  IF rs = <<>> THEN acc
  ELSE LET r == Head(rs)
       IN parse_graph_resources(
            Tail(rs), DictSet(acc, Get(r, K_id, Get(r, K_name, EmptyStr)), r))

\* The connections list built by the second loop of parse_graph.
parse_graph_connections(cs) ==
  LET kept == SelectSeq(cs, LAMBDA c : Get(c, K_type, NoneVal) # S_dependsOn)
  IN [i \in 1..Len(kept) |->
        <<Get(kept[i], K_sourceId, EmptyStr), Get(kept[i], K_targetId, EmptyStr)>>]

\* json.loads(raw) raises on text that is not JSON.
parse_graph_raises(raw) == raw.kind = "malformed"

\* parse_graph(raw), for raw on which it returns.  raw.kind is "none" for
\* None, "empty" for the empty string, "json" for a JSON document.
parse_graph(raw) ==
  IF raw.kind \in {"none", "empty"} THEN EmptyGraph
  ELSE [resources |-> parse_graph_resources(raw.data.resources, <<>>),
        connections |-> parse_graph_connections(raw.data.connections)]

resolve_name(res_id, resources) ==
  IF Has(resources, res_id)
  THEN Get(Get(resources, res_id, <<>>), K_name, res_id)
  ELSE IF ArmMatch(res_id) THEN ArmRefSym(res_id)
  ELSE IF UrlMatch(res_id) THEN UrlHostname(res_id)
  ELSE LastSegment(res_id)

safe_node_id(name) ==
  [i \in 1..Len(name) |-> IF name[i] \in {"-", "."} THEN "_" ELSE name[i]]

\* json.dumps(obj, sort_keys=True) for a dict of string values: the items
\* in key order, written as {"k": "v", "k": "v"}.
RECURSIVE SortedItems(_)
SortedItems(d) ==
  IF d = <<>> THEN <<>>
  ELSE LET m == CHOOSE i \in 1..Len(d) :
                  \A j \in 1..Len(d) : j # i => StrLess(d[i][1], d[j][1])
       IN <<d[m]>> \o SortedItems(SelectSeq(d, LAMBDA kv : kv[1] # d[m][1]))

RECURSIVE JoinItems(_)
JoinItems(items) ==
  IF items = <<>> THEN <<>>
  ELSE <<"\"">> \o items[1][1] \o <<"\"", ":", " ", "\"">> \o items[1][2]
       \o <<"\"">>
       \o (IF Len(items) > 1 THEN <<",", " ">> ELSE <<>>)
       \o JoinItems(Tail(items))

\* json.dumps(obj) without sort_keys: the items in insertion order.
json_dumps_unsorted(obj) == <<"{">> \o JoinItems(obj) \o <<"}">>

json_dumps_sorted(obj) == <<"{">> \o JoinItems(SortedItems(obj)) \o <<"}">>

\* ------------------------------------------------------------------------
\* graph_diff.py : diff_graphs
\* ------------------------------------------------------------------------
\* added = head_ids, the subtraction forgotten
added_ids_all(base_ids, head_ids) == head_ids

\* added = head_ids - base_ids
added_ids(base_ids, head_ids) == head_ids \ base_ids

\* the operands of the set difference swapped
added_conns_swapped(base_conns, head_conns) == base_conns \ head_conns

\* added_conns = head_conns - base_conns
added_conns_of(base_conns, head_conns) == head_conns \ base_conns

\* removed_conns = base_conns, the subtraction forgotten
removed_conns_all(base_conns, head_conns) == base_conns

\* removed_conns = base_conns - head_conns
removed_conns_of(base_conns, head_conns) == base_conns \ head_conns

\* unchanged = common, the subtraction forgotten
unchanged_ids_all(common, modified) == common

\* unchanged = common - modified
unchanged_ids(common, modified) == common \ modified

diff_graphs(base, head) ==
  LET base_ids == Keys(base.resources)
      head_ids == Keys(head.resources)
      added == added_ids(base_ids, head_ids)
      removed == base_ids \ head_ids
      common == base_ids \cap head_ids
      modified == {rid \in common :
                     json_dumps_sorted(Get(base.resources, rid, <<>>))
                       # json_dumps_sorted(Get(head.resources, rid, <<>>))}
      base_conns == Range(base.connections)
      head_conns == Range(head.connections)
  IN [added |-> added,
      removed |-> removed,
      modified |-> modified,
      unchanged |-> unchanged_ids(common, modified),
      added_conns |-> added_conns_of(base_conns, head_conns),
      removed_conns |-> removed_conns_of(base_conns, head_conns)]

\* ------------------------------------------------------------------------
\* graph_diff.py : diagrams.  A diagram is the sequence of its node
\* statements and the sequence of its edge statements; an edge statement
\* also records the connection tuple it was emitted for.
\* ------------------------------------------------------------------------
NoDiagram == [nodes |-> <<>>, edges |-> <<>>]

\* The node loop of make_mermaid_graph (labels as without DETAILED).
mermaid_graph_nodes(resources) ==
  LET shown == SelectSeq(resources,
                 LAMBDA kv : categorize(Get(kv[2], K_type, EmptyStr)) # "application")
  IN [i \in 1..Len(shown) |->
        LET name == Get(shown[i][2], K_name, S_unknown)
        IN [nid |-> safe_node_id(name),
            label |-> name,
            class |-> categorize(Get(shown[i][2], K_type, EmptyStr))]]

\* Whether the edge loops of make_mermaid_graph and make_diff_mermaid emit
\* a statement for the connection.
edge_emitted(conn, resources) ==
  /\ categorize(Get(Get(resources, conn[1], <<>>), K_type, EmptyStr)) # "application"
  /\ categorize(Get(Get(resources, conn[2], <<>>), K_type, EmptyStr)) # "application"
  /\ resolve_name(conn[1], resources) # resolve_name(conn[2], resources)

\* The edge loop of make_mermaid_graph.
mermaid_graph_edges(resources, connections) ==
  LET kept == SelectSeq(connections, LAMBDA c : edge_emitted(c, resources))
  IN [i \in 1..Len(kept) |->
        [from |-> safe_node_id(resolve_name(kept[i][1], resources)),
         to |-> safe_node_id(resolve_name(kept[i][2], resources)),
         arrow |-> "-->",
         conn |-> kept[i]]]

make_mermaid_graph(resources, connections) ==
  [nodes |-> mermaid_graph_nodes(resources),
   edges |-> mermaid_graph_edges(resources, connections)]

\* {**base["resources"], **head["resources"]}
RECURSIVE DictUpdate(_, _)
DictUpdate(d, e) ==
  IF e = <<>> THEN d ELSE DictUpdate(DictSet(d, e[1][1], e[1][2]), Tail(e))

diff_status(rid, diff) ==
  IF rid \in diff.added THEN "added"
  ELSE IF rid \in diff.removed THEN "removed"
  ELSE IF rid \in diff.modified THEN "modified"
  ELSE "unchanged"

status_prefix(status) ==
  CASE status = "added" -> <<"+", " ">>
    [] status = "removed" -> <<"-", " ">>
    [] status = "modified" -> <<"~", " ">>
    [] OTHER -> <<>>

\* The node loop of make_diff_mermaid: rids in sorted order, one statement
\* per node id (nodes_added).
RECURSIVE diff_mermaid_nodes(_, _, _, _)
diff_mermaid_nodes(rids, all_resources, diff, lines) ==
  IF rids = <<>> THEN lines
  ELSE LET rid == Head(rids)
           res == Get(all_resources, rid, <<>>)
           name == Get(res, K_name, S_unknown)
           res_type == Get(res, K_type, EmptyStr)
           status == diff_status(rid, diff)
           nid == safe_node_id(name)
       IN IF categorize(res_type) = "application"
          THEN diff_mermaid_nodes(Tail(rids), all_resources, diff, lines)
          ELSE IF \E i \in 1..Len(lines) : lines[i].nid = nid
          THEN diff_mermaid_nodes(Tail(rids), all_resources, diff, lines)
          ELSE diff_mermaid_nodes(Tail(rids), all_resources, diff,
                 Append(lines, [nid |-> nid,
                                label |-> status_prefix(status) \o name,
                                class |-> status]))

\* An edge loop that has no connector for removed connections.
diff_mermaid_edges_no_removed(all_resources, all_conns, diff) ==
  LET kept == SelectSeq(SortedPairs(all_conns),
                        LAMBDA c : edge_emitted(c, all_resources))
  IN [i \in 1..Len(kept) |->
        [from |-> safe_node_id(resolve_name(kept[i][1], all_resources)),
         to |-> safe_node_id(resolve_name(kept[i][2], all_resources)),
         arrow |-> IF kept[i] \in diff.added_conns THEN "-. new .->" ELSE "-->",
         conn |-> kept[i]]]

\* The edge loop of make_diff_mermaid.
diff_mermaid_edges(all_resources, all_conns, diff) ==
  LET kept == SelectSeq(SortedPairs(all_conns),
                        LAMBDA c : edge_emitted(c, all_resources))
  IN [i \in 1..Len(kept) |->
        [from |-> safe_node_id(resolve_name(kept[i][1], all_resources)),
         to |-> safe_node_id(resolve_name(kept[i][2], all_resources)),
         arrow |-> IF kept[i] \in diff.added_conns THEN "-. new .->"
                   ELSE IF kept[i] \in diff.removed_conns THEN "-. removed .->"
                   ELSE "-->",
         conn |-> kept[i]]]

make_diff_mermaid(base, head, diff) ==
  LET all_resources == DictUpdate(base.resources, head.resources)
      all_rids == SortedStrs(Keys(head.resources) \cup Keys(base.resources))
      all_conns == Range(head.connections) \cup Range(base.connections)
  IN [nodes |-> diff_mermaid_nodes(all_rids, all_resources, diff, <<>>),
      edges |-> diff_mermaid_edges(all_resources, all_conns, diff)]

has_changes(diff) ==
  \/ diff.added # {} \/ diff.removed # {} \/ diff.modified # {}
  \/ diff.added_conns # {} \/ diff.removed_conns # {}


\* ------------------------------------------------------------------------
\* generate_architecture.py : parse_rad_graph_output
\* ------------------------------------------------------------------------
\* Value of the first item of dict d (in iteration order) that satisfies
\* P, as a for loop with break finds it; default when there is none.
FirstValue(d, P(_, _), default) ==
  IF \E i \in 1..Len(d) : P(d[i][1], d[i][2])
  THEN d[CHOOSE i \in 1..Len(d) :
           P(d[i][1], d[i][2]) /\ \A j \in 1..(i - 1) : ~P(d[j][1], d[j][2])][2]
  ELSE default

\* properties.container.image, held under the key "image" of the resource
\* object; a template expression ("[...") is skipped.
rad_image(res) ==
  LET image == Get(res, K_image, NoneVal)
  IN IF image # NoneVal /\ StartsWith(image, <<"[">>) THEN NoneVal ELSE image

\* One resource record of parse_rad_graph_output.
rad_resource(res) ==
  [symbolic_name |-> Get(res, K_name, S_unknown),
   display_name |-> Get(res, K_name, S_unknown),
   resource_type |-> Get(res, K_type, EmptyStr),
   image |-> rad_image(res),
   category |-> rad_category(Get(res, K_type, EmptyStr))]

rad_resources(rs) == [i \in 1..Len(rs) |-> rad_resource(rs[i])]

\* id_to_name as the resource loop leaves it.
RECURSIVE rad_id_to_name(_, _)
rad_id_to_name(rs, acc) ==
  IF rs = <<>> THEN acc
  ELSE LET res_id == Get(Head(rs), K_id, EmptyStr)
           name == Get(Head(rs), K_name, S_unknown)
       IN rad_id_to_name(Tail(rs),
            IF res_id # EmptyStr THEN DictSet(acc, res_id, name) ELSE acc)

\* "x.rstrip('/').rsplit('/', 1)[-1] if '/' in x else x"
last_of(x) == IF Contains(x, <<"/">>) THEN LastSegment(x) ELSE x

\* Resolution of sourceId to a resource name.
resolve_source(source_id, id_to_name) ==
  LET source_name == Get(id_to_name, source_id, EmptyStr)
  IN IF source_name # EmptyStr THEN source_name
     ELSE FirstValue(id_to_name,
            LAMBDA rid, rname : EndsWith(rid, <<"/">> \o last_of(source_id)),
            EmptyStr)

\* The steps of the target resolution.
target_exact(target_id, id_to_name) == Get(id_to_name, target_id, EmptyStr)

target_arm(target_id, id_to_name) ==
  IF ArmMatch(target_id)
  THEN FirstValue(id_to_name,
         LAMBDA rid, rname : rname = ArmRefSym(target_id), EmptyStr)
  ELSE EmptyStr

\* the URL step without "target_name = hostname"
target_url_no_fallback(target_id, id_to_name) ==
  IF UrlMatch(target_id)
  THEN FirstValue(id_to_name,
         LAMBDA rid, rname :
           Contains(rname, UrlHostname(target_id))
             \/ Contains(UrlHostname(target_id), rname),
         EmptyStr)
  ELSE EmptyStr

target_url(target_id, id_to_name) ==
  IF UrlMatch(target_id)
  THEN LET hostname == UrlHostname(target_id)
           m == FirstValue(id_to_name,
                  LAMBDA rid, rname :
                    Contains(rname, hostname) \/ Contains(hostname, rname),
                  EmptyStr)
       IN IF m # EmptyStr THEN m ELSE hostname
  ELSE EmptyStr

target_plain(target_id, id_to_name) ==
  LET target_last == last_of(target_id)
      m == FirstValue(id_to_name,
             LAMBDA rid, rname :
               EndsWith(rid, <<"/">> \o target_last) \/ rname = target_last,
             EmptyStr)
  IN IF m # EmptyStr THEN m ELSE target_last

\* The chain with the plain-name step moved before the ARM and URL steps.
resolve_target_plain_first(target_id, id_to_name) ==
  LET t1 == target_exact(target_id, id_to_name)
  IN IF t1 # EmptyStr THEN t1 ELSE target_plain(target_id, id_to_name)

\* Resolution of targetId to a resource name: the chain of
\* "if not target_name" steps.
resolve_target(target_id, id_to_name) ==
  LET t1 == target_exact(target_id, id_to_name)
      t2 == IF t1 # EmptyStr THEN t1 ELSE target_arm(target_id, id_to_name)
      t3 == IF t2 # EmptyStr THEN t2 ELSE target_url(target_id, id_to_name)
      t4 == IF t3 # EmptyStr THEN t3 ELSE target_plain(target_id, id_to_name)
  IN t4

\* The connection loop of parse_rad_graph_output.
RECURSIVE rad_connections(_, _, _)
rad_connections(cs, id_to_name, acc) ==
  IF cs = <<>> THEN acc
  ELSE LET conn == Head(cs)
           source_name == resolve_source(Get(conn, K_sourceId, EmptyStr), id_to_name)
           target_name == resolve_target(Get(conn, K_targetId, EmptyStr), id_to_name)
           conn_entry == [from |-> source_name, to |-> target_name]
       IN IF Get(conn, K_type, EmptyStr) = S_dependsOn
          THEN rad_connections(Tail(cs), id_to_name, acc)
          ELSE IF source_name # EmptyStr /\ target_name # EmptyStr
                  /\ source_name # target_name
                  /\ conn_entry \notin Range(acc)
          THEN rad_connections(Tail(cs), id_to_name, Append(acc, conn_entry))
          ELSE rad_connections(Tail(cs), id_to_name, acc)

\* parse_rad_graph_output on a file that holds a JSON document.
parse_rad_graph_output(data) ==
  [resources |-> rad_resources(data.resources),
   connections |-> rad_connections(data.connections,
                     rad_id_to_name(data.resources, <<>>), <<>>)]


\* ------------------------------------------------------------------------
\* generate_architecture.py : parse_bicep
\*
\* The manifest is given by the matches of resource_pattern, in file
\* order.  A match (block) records what the scoped patterns find in it:
\*   symbolic_name, resource_type : groups 1 and 2 of resource_pattern
\*   name         : group 1 of  name:\s*'([^']+)'  in the body, or NoneVal
\*   image        : group 1 of  image:\s*'([^']+)'  in the body, or NoneVal
\*   conn_sources : findall of  source:\s*'([^']+)'  in the connections block
\*   source_refs  : the names found by  source:\s*(\w+)\.(id|connectionString)
\* ------------------------------------------------------------------------
bicep_resource(b) ==
  [symbolic_name |-> b.symbolic_name,
   display_name |-> IF b.name # NoneVal THEN b.name ELSE b.symbolic_name,
   resource_type |-> b.resource_type,
   image |-> b.image,
   category |-> bicep_category(b.resource_type)]

bicep_resources(blocks) == [i \in 1..Len(blocks) |-> bicep_resource(blocks[i])]

\* connections.append(...) for the quoted sources of one block
RECURSIVE bicep_quoted(_, _, _)
bicep_quoted(symbolic_name, urls, acc) ==
  IF urls = <<>> THEN acc
  ELSE bicep_quoted(symbolic_name, Tail(urls),
         Append(acc,
           IF UrlMatch(Head(urls))
           THEN [from |-> symbolic_name, key |-> "to_hostname",
                 to |-> UrlHostname(Head(urls))]
           ELSE [from |-> symbolic_name, key |-> "to", to |-> Head(urls)]))

\* "if conn not in connections: connections.append(conn)" for the refs
RECURSIVE bicep_refs(_, _, _)
bicep_refs(symbolic_name, refs, acc) ==
  IF refs = <<>> THEN acc
  ELSE LET conn == [from |-> symbolic_name, key |-> "to", to |-> Head(refs)]
       IN bicep_refs(symbolic_name, Tail(refs),
            IF conn \in Range(acc) THEN acc ELSE Append(acc, conn))

\* The unresolved connections list after the loop over the blocks.
RECURSIVE bicep_raw_connections(_, _)
bicep_raw_connections(blocks, acc) ==
  IF blocks = <<>> THEN acc
  ELSE LET b == Head(blocks)
       IN bicep_raw_connections(Tail(blocks),
            bicep_refs(b.symbolic_name, b.source_refs,
              bicep_quoted(b.symbolic_name, b.conn_sources, acc)))

\* name_to_symbolic = {display_name: symbolic_name}
RECURSIVE name_to_symbolic(_, _)
name_to_symbolic(resources, acc) ==
  IF resources = <<>> THEN acc
  ELSE name_to_symbolic(Tail(resources),
         DictSet(acc, Head(resources).display_name, Head(resources).symbolic_name))

\* The resolution loop: a hostname that is no display name is skipped.
RECURSIVE bicep_resolve(_, _, _)
bicep_resolve(conns, n2s, acc) ==
  IF conns = <<>> THEN acc
  ELSE LET conn == Head(conns)
       IN IF conn.key = "to_hostname"
          THEN IF Get(n2s, conn.to, EmptyStr) # EmptyStr
               THEN bicep_resolve(Tail(conns), n2s,
                      Append(acc, [from |-> conn.from, to |-> Get(n2s, conn.to, EmptyStr)]))
               ELSE bicep_resolve(Tail(conns), n2s, acc)
          ELSE bicep_resolve(Tail(conns), n2s,
                 Append(acc, [from |-> conn.from, to |-> conn.to]))

parse_bicep(blocks) ==
  [resources |-> bicep_resources(blocks),
   connections |-> bicep_resolve(bicep_raw_connections(blocks, <<>>),
                     name_to_symbolic(bicep_resources(blocks), <<>>), <<>>)]

\* ------------------------------------------------------------------------
\* generate_architecture.py : resolve_image_tag
\* ------------------------------------------------------------------------
S_latest == <<"l","a","t","e","s","t">>

\* image_str.rfind(":"), 1-based, 0 when there is no colon
RFindColon(s) ==
  LET cs == {i \in 1..Len(s) : s[i] = ":"}
  IN IF cs = {} THEN 0 ELSE CHOOSE i \in cs : \A j \in cs : j <= i

\* (image, tag) as <<image, tag>>, or NoneVal for a resource that is no
\* container.  param_image is what _resolve_param_image returns (NoneVal
\* when it finds no parameter default).
resolve_image_tag(resource, param_image) ==
  IF resource.category # "container" THEN NoneVal
  ELSE LET image_str ==
             IF resource.image = NoneVal \/ resource.image = EmptyStr
                \/ StartsWith(resource.image, <<"[">>)
             THEN param_image ELSE resource.image
       IN IF image_str = NoneVal \/ image_str = EmptyStr
          THEN <<(IF resource.display_name # EmptyStr THEN resource.display_name
                  ELSE resource.symbolic_name), S_latest>>
          ELSE IF RFindColon(image_str) # 0
          THEN <<SubSeq(image_str, 1, RFindColon(image_str) - 1),
                 Drop(image_str, RFindColon(image_str))>>
          ELSE <<image_str, S_latest>>

\* ------------------------------------------------------------------------
\* generate_architecture.py : generate_mermaid
\* ------------------------------------------------------------------------
\* resource_map = {r["symbolic_name"]: r for r in resources}
RECURSIVE resource_map(_, _)
resource_map(resources, acc) ==
  IF resources = <<>> THEN acc
  ELSE resource_map(Tail(resources),
         DictSet(acc, Head(resources).symbolic_name, Head(resources)))

\* The test that guards an edge statement (first connection loop).
edge_filter(conn, rmap) ==
  /\ Has(rmap, conn.from) /\ Has(rmap, conn.to)
  /\ ~(Get(rmap, conn.from, <<>>).category = "application"
       \/ Get(rmap, conn.to, <<>>).category = "application")

\* A style loop that leaves out the category test.
style_filter_membership_only(conn, rmap) ==
  Has(rmap, conn.from) /\ Has(rmap, conn.to)

\* The test that guards a linkStyle statement (second connection loop).
style_filter(conn, rmap) ==
  /\ Has(rmap, conn.from) /\ Has(rmap, conn.to)
  /\ ~(Get(rmap, conn.from, <<>>).category = "application"
       \/ Get(rmap, conn.to, <<>>).category = "application")

\* The test of the node loop: "if res[category] == application: continue"
node_shown(res) == res.category # "application"

\* A click loop that skips nothing.
click_shown_all(res) == TRUE

\* The test of the click loop.
click_shown(res) == res.category # "application"

generate_mermaid(resources, connections) ==
  LET rmap == resource_map(resources, <<>>)
      shown == SelectSeq(resources, node_shown)
      clicked == SelectSeq(resources, click_shown)
      edges == SelectSeq(connections, LAMBDA c : edge_filter(c, rmap))
      styled == SelectSeq(connections, LAMBDA c : style_filter(c, rmap))
  IN [nodes |-> [i \in 1..Len(shown) |->
                   [nid |-> shown[i].symbolic_name,
                    label |-> shown[i].display_name,
                    image |-> shown[i].image,
                    \* make_detailed_label: the image:tag of detailed mode
                    image_tag |-> resolve_image_tag(shown[i], NoneVal),
                    class |-> shown[i].category]],
      edges |-> [i \in 1..Len(edges) |->
                   [from |-> edges[i].from, to |-> edges[i].to,
                    arrow |-> "-->", conn |-> <<edges[i].from, edges[i].to>>]],
      clicks |-> [i \in 1..Len(clicked) |-> clicked[i].symbolic_name],
      linkstyles |-> [i \in 1..Len(styled) |->
                        [index |-> i - 1,
                         conn |-> <<styled[i].from, styled[i].to>>]]]


\* ------------------------------------------------------------------------
\* graph_diff.py : the report
\* ------------------------------------------------------------------------
\* The parts of the summary line, one per non-empty resource set.
render_summary(diff) ==
  (IF diff.added # {}
   THEN <<[sign |-> "+", count |-> Cardinality(diff.added), word |-> "added"]>>
   ELSE <<>>)
  \o (IF diff.removed # {}
      THEN <<[sign |-> "-", count |-> Cardinality(diff.removed), word |-> "removed"]>>
      ELSE <<>>)
  \o (IF diff.modified # {}
      THEN <<[sign |-> "~", count |-> Cardinality(diff.modified), word |-> "modified"]>>
      ELSE <<>>)
  \o (IF diff.unchanged # {}
      THEN <<[sign |-> "", count |-> Cardinality(diff.unchanged), word |-> "unchanged"]>>
      ELSE <<>>)

\* The section of one application: its diagrams and summary line, or the
\* line "No resource or connection changes." (the two tables are left out).
render_diff_section(base_graph, head_graph, diff) ==
  IF ~has_changes(diff)
  THEN [changes |-> FALSE]
  ELSE [changes |-> TRUE,
        base_mermaid |-> make_mermaid_graph(base_graph.resources,
                                            base_graph.connections),
        head_mermaid |-> make_mermaid_graph(head_graph.resources,
                                            head_graph.connections),
        diff_mermaid |-> make_diff_mermaid(base_graph, head_graph, diff),
        summary |-> render_summary(diff)]

\* header + section + footer
render_full_comment(section) == [kind |-> "diff", section |-> section]

\* The fixed report "No architecture changes detected in this PR."
render_no_changes == [kind |-> "no_changes"]

\* ------------------------------------------------------------------------
\* generate_architecture.py : update_readme
\* ------------------------------------------------------------------------
\* "## Architecture"
S_arch_heading == <<"#","#"," ","A","r","c","h","i","t","e","c","t","u","r","e">>
\* "\n## "
S_next_heading == <<"\n","#","#"," ">>
\* "```mermaid", each backquote written as an apostrophe here and below
S_fence_open == <<"'","'","'","m","e","r","m","a","i","d">>
\* "'''"
S_fence_close == <<"'","'","'">>
\* The note line of the section body (its dash is U+2014 in the source).
S_note ==
  <<">"," ","*","A","u","t","o","-","g","e","n","e","r","a",
  "t","e","d"," ","f","r","o","m"," ","'","a","p","p",".","b",
  "i","c","e","p","'"," ","-"," ","c","l","i","c","k"," ","a",
  "n","y"," ","n","o","d","e"," ","t","o"," ","j","u","m","p",
  " ","t","o"," ","i","t","s"," ","d","e","f","i","n","i","t",
  "i","o","n"," ","i","n"," ","t","h","e"," ","s","o","u","r",
  "c","e",".","*">>
NL == <<"\n">>

\* The characters matched by \s.
Whitespace == {" ", "\t", "\n", "\r"}

\* "\n".join(["", note, "", "```mermaid", mermaid_block, "```", ""])
new_body(mermaid_block) ==
  NL \o S_note \o NL \o NL \o S_fence_open \o NL \o mermaid_block \o NL
     \o S_fence_close \o NL

\* s[i:].startswith(pat), 1-based
MatchesAt(s, pat, i) ==
  /\ i >= 1
  /\ i + Len(pat) - 1 <= Len(s)
  /\ SubSeq(s, i, i + Len(pat) - 1) = pat

\* Index of the last character of group 1, "(## Architecture\s*\n)", for a
\* match starting at p, or 0 when the pattern cannot match at p: \s* is
\* greedy, so the group ends at the last newline of the whitespace run that
\* follows the heading text.
heading_end(s, p) ==
  IF ~MatchesAt(s, S_arch_heading, p) THEN 0
  ELSE LET e == p + Len(S_arch_heading)
           w == RunLen(Drop(s, e - 1), Whitespace)
           nls == {j \in e..(e + w - 1) : s[j] = "\n"}
       IN IF nls = {} THEN 0
          ELSE CHOOSE j \in nls : \A k \in nls : k <= j

\* Start of the leftmost match of the pattern at or after i, or 0.
next_match(s, i) ==
  LET starts == {p \in i..Len(s) : heading_end(s, p) # 0}
  IN IF starts = {} THEN 0
     ELSE CHOOSE p \in starts : \A q \in starts : p <= q

\* Start of group 2, "(\n## |\Z)", reached lazily by ".*?" (DOTALL) from the
\* end of group 1: the first "\n## " after it, or Len(s) + 1 for \Z.
section_end(s, from) ==
  LET stops == {j \in from..Len(s) : MatchesAt(s, S_next_heading, j)}
  IN IF stops = {} THEN Len(s) + 1
     ELSE CHOOSE j \in stops : \A k \in stops : j <= k

\* pattern.search(content)
pattern_search(content) == next_match(content, 1) # 0

\* pattern.sub(r"\1" + new_body + "\n" + r"\2", content): every
\* non-overlapping match from left to right is replaced.
RECURSIVE pattern_sub(_, _, _, _)
pattern_sub(content, body, i, acc) ==
  LET p == next_match(content, i)
  IN IF p = 0 THEN acc \o Drop(content, i - 1)
     ELSE LET g1 == heading_end(content, p)
              g2 == section_end(content, g1 + 1)
              group2 == IF g2 > Len(content) THEN <<>> ELSE S_next_heading
              stop == g2 + Len(group2)
          IN pattern_sub(content, body, stop,
               acc \o SubSeq(content, i, g1) \o body \o NL \o group2)

\* The new text of README.md.
update_readme(content, mermaid_block) ==
  IF pattern_search(content)
  THEN pattern_sub(content, new_body(mermaid_block), 1, <<>>)
  ELSE content \o NL \o S_arch_heading \o NL \o new_body(mermaid_block) \o NL


\* "\n".join(lines)
RECURSIVE JoinLines(_)
JoinLines(lines) ==
  IF lines = <<>> THEN <<>>
  ELSE IF Len(lines) = 1 THEN lines[1]
  ELSE lines[1] \o NL \o JoinLines(Tail(lines))

\* "graph LR"
S_graph_LR == <<"g","r","a","p","h"," ","L","R">>
\* "    "
S_indent == <<" "," "," "," ">>
\* " --> "
S_arrow == <<" ","-","-",">"," ">>
\* "click "
S_click == <<"c","l","i","c","k"," ">>
\* "linkStyle "
S_linkStyle == <<"l","i","n","k","S","t","y","l","e"," ">>
Digits == <<"0","1","2","3","4","5","6","7","8","9">>

\* The string generate_mermaid returns, "\n".join(lines), with the init and
\* classDef lines, the labels and the URLs left out of each line.
mermaid_text(block) ==
  JoinLines(
    <<S_graph_LR>>
    \o [i \in 1..Len(block.nodes) |-> S_indent \o block.nodes[i].nid]
    \o [i \in 1..Len(block.edges) |->
          S_indent \o block.edges[i].from \o S_arrow \o block.edges[i].to]
    \o [i \in 1..Len(block.clicks) |-> S_indent \o S_click \o block.clicks[i]]
    \o [i \in 1..Len(block.linkstyles) |->
          S_indent \o S_linkStyle
            \o <<Digits[(block.linkstyles[i].index % 10) + 1]>>])


\* ------------------------------------------------------------------------
\* Sample inputs
\* ------------------------------------------------------------------------
\* "fe"
N_fe == <<"f","e">>
\* "be"
N_be == <<"b","e">>
\* "db"
N_db == <<"d","b">>
\* "ap"
N_ap == <<"a","p">>
\* "st"
N_st == <<"s","t">>
\* "mg"
N_mg == <<"m","g">>
\* "uh"
N_uh == <<"u","h">>
\* "/c/fe"
I_fe == <<"/","c","/","f","e">>
\* "/c/be"
I_be == <<"/","c","/","b","e">>
\* "/d/db"
I_db == <<"/","d","/","d","b">>
\* "/a/ap"
I_ap == <<"/","a","/","a","p">>
\* "/x/fe"
I_xfe == <<"/","x","/","f","e">>
\* "http://be:3000"
U_be == <<"h","t","t","p",":","/","/","b","e",":","3","0","0","0">>
\* "https://be:8080"
U_be2 ==
  <<"h","t","t","p","s",":","/","/","b","e",":","8","0","8","0">>
\* "http://uh:9"
U_uh == <<"h","t","t","p",":","/","/","u","h",":","9">>
\* "http://fe:80"
U_fe == <<"h","t","t","p",":","/","/","f","e",":","8","0">>
\* "http://gw/be"
U_gw_be == <<"h","t","t","p",":","/","/","g","w","/","b","e">>
\* "[reference('db').id]"
A_db ==
  <<"[","r","e","f","e","r","e","n","c","e","(","'","d","b","'",")",".","i",
  "d","]">>
\* "be.id"
Q_beid == <<"b","e",".","i","d">>
\* "Applications.Core/containers"
T_containers ==
  <<"A","p","p","l","i","c","a","t","i","o","n","s",".","C","o","r","e","/",
  "c","o","n","t","a","i","n","e","r","s">>
\* "Applications.Core/Containers"
T_Containers ==
  <<"A","p","p","l","i","c","a","t","i","o","n","s",".","C","o","r","e","/",
  "C","o","n","t","a","i","n","e","r","s">>
\* "Applications.Datastores/redisCaches"
T_redis ==
  <<"A","p","p","l","i","c","a","t","i","o","n","s",".","D","a","t","a","s",
  "t","o","r","e","s","/","r","e","d","i","s","C","a","c","h","e","s">>
\* "Applications.Datastores/sqlDatabases"
T_sql ==
  <<"A","p","p","l","i","c","a","t","i","o","n","s",".","D","a","t","a","s",
  "t","o","r","e","s","/","s","q","l","D","a","t","a","b","a","s","e","s">>
\* "Applications.Datastores/mongoDatabases"
T_mongo ==
  <<"A","p","p","l","i","c","a","t","i","o","n","s",".","D","a","t","a","s",
  "t","o","r","e","s","/","m","o","n","g","o","D","a","t","a","b","a","s",
  "e","s">>
\* "Applications.Core/applications"
T_application ==
  <<"A","p","p","l","i","c","a","t","i","o","n","s",".","C","o","r","e","/",
  "a","p","p","l","i","c","a","t","i","o","n","s">>
\* "Microsoft.Storage/accounts"
T_storage ==
  <<"M","i","c","r","o","s","o","f","t",".","S","t","o","r","a","g","e","/",
  "a","c","c","o","u","n","t","s">>

\* All sequences over S of length at most n.
SeqsUpTo(S, n) == UNION {[1..k -> S] : k \in 0..n}

\* Those of them in which no element occurs twice.
DistinctSeqsUpTo(S, n) ==
  {s \in SeqsUpTo(S, n) : \A i, j \in 1..Len(s) : s[i] = s[j] => i = j}

Res(id, name, type) == <<<<K_id, id>>, <<K_name, name>>, <<K_type, type>>>>
Conn(src, tgt, type) ==
  <<<<K_sourceId, src>>, <<K_targetId, tgt>>, <<K_type, type>>>>

\* Resource objects of app-graph.json as graph_diff reads them.
DiffResSamples ==
  { Res(I_fe, N_fe, T_containers),
    \* the same object with its keys in another order
    <<<<K_type, T_containers>>, <<K_name, N_fe>>, <<K_id, I_fe>>>>,
    \* the same id with another type
    Res(I_fe, N_fe, T_application),
    \* no id: keyed by its name
    <<<<K_name, N_db>>, <<K_type, T_redis>>>>,
    \* another id with the display name of the first
    Res(I_xfe, N_fe, T_containers) }

\* Connection arrays of app-graph.json.  "/d/db" is the id of no sample
\* resource and has the display name of the resource keyed "db".
DiffConnLists ==
  { <<>>,
    <<Conn(I_fe, N_db, S_connection), Conn(I_fe, I_ap, S_dependsOn),
      Conn(I_fe, U_uh, S_connection)>>,
    <<Conn(I_fe, I_db, S_connection), Conn(I_fe, U_uh, S_connection)>> }

NoData == [resources |-> <<>>, connections |-> <<>>]

\* Resource arrays of an app-graph.json: no two objects of an array have
\* the same key r.get("id", r.get("name", "")).
DiffResLists ==
  {rs \in SeqsUpTo(DiffResSamples, MaxRes) :
     \A i, j \in 1..Len(rs) :
       Get(rs[i], K_id, Get(rs[i], K_name, EmptyStr))
         = Get(rs[j], K_id, Get(rs[j], K_name, EmptyStr)) => i = j}

\* Text of an app-graph.json: None (missing), "", not JSON, or a document.
DiffRaws ==
  {[kind |-> k, data |-> NoData] : k \in {"none", "empty", "malformed"}}
  \cup {[kind |-> "json", data |-> [resources |-> rs, connections |-> cs]] :
          rs \in DiffResLists, cs \in DiffConnLists}

\* Resource and connection objects of the rad app graph output.
RadResSamples ==
  { Res(I_fe, N_fe, T_containers),
    Res(I_be, N_be, T_Containers),
    Res(I_db, N_db, T_redis),
    Res(I_ap, N_ap, T_application),
    \* no id
    <<<<K_name, N_st>>, <<K_type, T_storage>>>> }

RadConnSamples ==
  { Conn(I_fe, I_be, S_connection),
    Conn(I_fe, U_be, S_connection),
    Conn(I_fe, U_uh, S_connection),
    Conn(I_be, A_db, S_connection),
    Conn(I_xfe, U_gw_be, S_connection),
    Conn(I_fe, I_ap, S_dependsOn),
    Conn(I_fe, U_fe, S_connection) }

RadDocs ==
  {[resources |-> rs, connections |-> cs] :
     rs \in DistinctSeqsUpTo(RadResSamples, MaxRes),
     cs \in DistinctSeqsUpTo(RadConnSamples, MaxConn)}

BlockImg(sym, type, name, image, quoted, refs) ==
  [symbolic_name |-> sym, resource_type |-> type, name |-> name,
   image |-> image, conn_sources |-> quoted, source_refs |-> refs]

\* A block without an image property.
Block(sym, type, name, quoted, refs) ==
  BlockImg(sym, type, name, NoneVal, quoted, refs)

\* "nginx:alpine"
IM_nginx_alpine == <<"n","g","i","n","x",":","a","l","p","i","n","e">>
\* "nginx"
IM_nginx == <<"n","g","i","n","x">>
\* "localhost:5000/nginx"
IM_registry ==
  <<"l","o","c","a","l","h","o","s","t",":","5","0","0","0","/","n","g","i","n","x">>

\* Resource blocks of app.bicep.
BlockSamples ==
  { Block(N_fe, T_containers, NoneVal, <<U_be>>, <<N_db>>),
    Block(N_fe, T_containers, N_fe, <<U_be, U_be2>>, <<>>),
    Block(N_fe, T_containers, N_fe, <<U_fe, U_uh, Q_beid>>, <<>>),
    Block(N_be, T_Containers, N_be, <<>>, <<N_db, N_db>>),
    Block(N_db, T_sql, N_db, <<>>, <<>>),
    Block(N_mg, T_mongo, NoneVal, <<>>, <<>>),
    Block(N_ap, T_application, N_ap, <<>>, <<>>),
    Block(N_st, T_storage, N_st, <<>>, <<N_ap>>),
    BlockImg(N_fe, T_containers, N_fe, IM_nginx_alpine, <<>>, <<>>),
    BlockImg(N_be, T_Containers, N_be, IM_nginx, <<>>, <<>>),
    BlockImg(N_be, T_Containers, NoneVal, IM_registry, <<>>, <<>>),
    BlockImg(N_db, T_sql, N_db, IM_nginx_alpine, <<>>, <<>>) }

BicepDocs == SeqsUpTo(BlockSamples, MaxBlocks)


\* Lines of a README.md.
L_title == <<"#"," ","T">>
L_arch == S_arch_heading
L_sub == <<"#","#","#"," ","A","r","c","h","i","t","e","c","t","u","r","e">>
L_usage == <<"#","#"," ","U","s","a","g","e">>
L_old == <<"o","l","d">>
L_mention == <<"s","e","e"," ","#","#"," ","A","r","c","h","i","t","e","c","t","u","r","e">>
ReadmeLines == {L_title, L_arch, L_sub, L_usage, L_old, L_mention, <<>>}

\* README.md documents: up to MaxLines lines, with or without a newline
\* after the last one.
ReadmeDocs ==
  {JoinLines(ls) : ls \in SeqsUpTo(ReadmeLines, MaxLines)}
  \cup {JoinLines(ls) \o NL : ls \in SeqsUpTo(ReadmeLines, MaxLines)}

\* Diagram blocks handed to update_readme.
BlockTexts ==
  { S_graph_LR,
    JoinLines(<<S_graph_LR, S_indent \o N_fe, S_indent \o N_be,
                S_indent \o N_fe \o S_arrow \o N_be>>) }

\* The README.md of a run of generate_architecture.main.
ArchReadme == JoinLines(<<L_title, L_arch, L_old, L_usage, L_old, <<>>>>)

\* ------------------------------------------------------------------------
\* State
\* ------------------------------------------------------------------------
VARIABLES
  tool,            \* which script runs: "graph_diff" or "generate_architecture"
  \* graph_diff.main
  base_raw,        \* text of the base app-graph.json (git show)
  head_raw,        \* text of the HEAD_GRAPH file
  base_graph,      \* parse_graph(base_raw)
  head_graph,      \* parse_graph(head_raw)
  diff,            \* diff_graphs(base_graph, head_graph)
  base_mermaid,    \* diagrams of render_diff_section
  head_mermaid,
  diff_mermaid,
  dpc,             \* position in graph_diff.main
  base_sha,        \* BASE_SHA is set (non-empty)
  output_path,     \* DIFF_OUTPUT is set (non-empty)
  result,          \* the report main has built
  report_file,     \* what was written to the DIFF_OUTPUT path, in order
  report_stdout,   \* the reports printed to standard output, in order
  \* generate_architecture.main
  rad_graph_output,  \* the RAD_GRAPH_OUTPUT file: kind and JSON document
  bicep_file,        \* app.bicep: kind and resource blocks
  resources,         \* the parsed resource list
  connections,       \* the parsed connection list
  parsed_by,         \* the parser that returned them
  mermaid_block,     \* generate_mermaid(...)
  apc,               \* position in generate_architecture.main
  steps,             \* the steps of main taken so far, in order
  \* update_readme
  readme_in,         \* README.md before the first write
  readme,            \* README.md
  readme_block,      \* the mermaid_block argument
  readme_writes      \* number of times README.md was written

vars ==
  <<tool, base_raw, head_raw, base_graph, head_graph, diff, base_mermaid,
    head_mermaid, diff_mermaid, dpc, base_sha, output_path, result,
    report_file, report_stdout, rad_graph_output, bicep_file, resources,
    connections, parsed_by, mermaid_block, apc, steps, readme_in, readme,
    readme_block, readme_writes>>

diff_vars ==
  <<base_raw, head_raw, base_graph, head_graph, diff, base_mermaid,
    head_mermaid, diff_mermaid, dpc, base_sha, output_path, result,
    report_file, report_stdout>>

\* What the steps before the output leave alone.
env_vars == <<base_sha, output_path, report_file, report_stdout>>

arch_vars ==
  <<rad_graph_output, bicep_file, resources, connections, parsed_by,
    mermaid_block, apc, steps>>

readme_vars == <<readme_in, readme, readme_block, readme_writes>>

NoDiff ==
  [added |-> {}, removed |-> {}, modified |-> {}, unchanged |-> {},
   added_conns |-> {}, removed_conns |-> {}]

NoMermaid == [nodes |-> <<>>, edges |-> <<>>, clicks |-> <<>>, linkstyles |-> <<>>]

NoResult == [kind |-> "none"]

DiffIdle ==
  /\ base_sha = FALSE /\ output_path = FALSE
  /\ result = NoResult
  /\ report_file = <<>> /\ report_stdout = <<>>
  /\ base_raw = [kind |-> "none", data |-> NoData]
  /\ head_raw = [kind |-> "none", data |-> NoData]
  /\ base_graph = EmptyGraph /\ head_graph = EmptyGraph
  /\ diff = NoDiff
  /\ base_mermaid = NoDiagram /\ head_mermaid = NoDiagram
  /\ diff_mermaid = NoDiagram
  /\ dpc = "idle"

ArchIdle ==
  /\ rad_graph_output = [kind |-> "unset", data |-> NoData]
  /\ bicep_file = [kind |-> "missing", blocks |-> <<>>]
  /\ resources = <<>> /\ connections = <<>>
  /\ parsed_by = "none"
  /\ mermaid_block = NoMermaid
  /\ apc = "idle"
  /\ steps = <<>>

ReadmeIdle ==
  /\ readme_in = <<>> /\ readme = <<>>
  /\ readme_block = <<>>
  /\ readme_writes = 0

InitDiff ==
  /\ tool = "graph_diff"
  /\ output_path \in BOOLEAN
  /\ \/ /\ base_sha = TRUE
        /\ base_raw \in DiffRaws
        /\ head_raw \in DiffRaws
     \/ \* BASE_SHA unset: main exits before it reads either graph
        /\ base_sha = FALSE
        /\ base_raw = [kind |-> "none", data |-> NoData]
        /\ head_raw = [kind |-> "none", data |-> NoData]
  /\ result = NoResult
  /\ report_file = <<>> /\ report_stdout = <<>>
  /\ base_graph = EmptyGraph /\ head_graph = EmptyGraph
  /\ diff = NoDiff
  /\ base_mermaid = NoDiagram /\ head_mermaid = NoDiagram
  /\ diff_mermaid = NoDiagram
  /\ dpc = "start"
  /\ ArchIdle
  /\ ReadmeIdle

InitArch ==
  /\ tool = "generate_architecture"
  /\ \/ /\ rad_graph_output \in {[kind |-> "json", data |-> d] : d \in RadDocs}
        /\ bicep_file = [kind |-> "missing", blocks |-> <<>>]
     \/ /\ rad_graph_output \in
             {[kind |-> k, data |-> NoData] : k \in {"unset", "missing", "malformed"}}
        /\ bicep_file \in
             {[kind |-> "missing", blocks |-> <<>>]}
               \cup {[kind |-> "file", blocks |-> b] : b \in BicepDocs}
  /\ resources = <<>> /\ connections = <<>>
  /\ parsed_by = "none"
  /\ mermaid_block = NoMermaid
  /\ apc = "start"
  /\ steps = <<>>
  /\ readme_in = ArchReadme /\ readme = ArchReadme
  /\ readme_block = <<>>
  /\ readme_writes = 0
  /\ DiffIdle

Init == InitDiff \/ InitArch

\* ------------------------------------------------------------------------
\* graph_diff.main
\* ------------------------------------------------------------------------
Falsy(raw) == raw.kind \in {"none", "empty"}

\* "if not head_raw and not base_raw: result = render_no_changes()"
\* "if not base_sha: ... sys.exit(1)"
GD_Exit1 ==
  /\ dpc = "start"
  /\ ~base_sha
  /\ dpc' = "exit1"
  /\ UNCHANGED <<tool, base_raw, head_raw, base_graph, head_graph, diff,
                 base_mermaid, head_mermaid, diff_mermaid, result, env_vars,
                 arch_vars, readme_vars>>

GD_NoChanges ==
  /\ dpc = "start"
  /\ base_sha
  /\ Falsy(head_raw) /\ Falsy(base_raw)
  /\ result' = render_no_changes
  /\ dpc' = "no_changes"
  /\ UNCHANGED <<tool, base_raw, head_raw, base_graph, head_graph, diff,
                 base_mermaid, head_mermaid, diff_mermaid, env_vars, arch_vars,
                 readme_vars>>

\* base_graph = parse_graph(base_raw); head_graph = parse_graph(head_raw)
GD_ParseGraph ==
  /\ dpc = "start"
  /\ base_sha
  /\ ~(Falsy(head_raw) /\ Falsy(base_raw))
  /\ IF parse_graph_raises(base_raw)
     THEN /\ dpc' = "crashed"
          /\ UNCHANGED <<base_graph, head_graph>>
     ELSE IF parse_graph_raises(head_raw)
     THEN /\ dpc' = "crashed"
          /\ base_graph' = parse_graph(base_raw)
          /\ UNCHANGED head_graph
     ELSE /\ dpc' = "parsed"
          /\ base_graph' = parse_graph(base_raw)
          /\ head_graph' = parse_graph(head_raw)
  /\ UNCHANGED <<tool, base_raw, head_raw, diff, base_mermaid, head_mermaid,
                 diff_mermaid, result, env_vars,
                 arch_vars, readme_vars>>

\* diff = diff_graphs(base_graph, head_graph)
GD_DiffGraphs ==
  /\ dpc = "parsed"
  /\ diff' = diff_graphs(base_graph, head_graph)
  /\ dpc' = "diffed"
  /\ UNCHANGED <<tool, base_raw, head_raw, base_graph, head_graph,
                 base_mermaid, head_mermaid, diff_mermaid, result, env_vars,
                 arch_vars, readme_vars>>

\* render_diff_section: the three diagrams, when there are changes
GD_RenderDiffSection ==
  /\ dpc = "diffed"
  /\ IF has_changes(diff)
     THEN /\ base_mermaid' =
               make_mermaid_graph(base_graph.resources, base_graph.connections)
          /\ head_mermaid' =
               make_mermaid_graph(head_graph.resources, head_graph.connections)
          /\ diff_mermaid' = make_diff_mermaid(base_graph, head_graph, diff)
     ELSE UNCHANGED <<base_mermaid, head_mermaid, diff_mermaid>>
  /\ result' = render_full_comment(render_diff_section(base_graph, head_graph, diff))
  /\ dpc' = "rendered"
  /\ UNCHANGED <<tool, base_raw, head_raw, base_graph, head_graph, diff,
                 env_vars, arch_vars,
                 readme_vars>>

\* "if output_path: ... f.write(result) ... else: print(result)"
GD_Output ==
  /\ dpc \in {"no_changes", "rendered"}
  /\ IF output_path
     THEN /\ report_file' = Append(report_file, result)
          /\ UNCHANGED report_stdout
     ELSE /\ report_stdout' = Append(report_stdout, result)
          /\ UNCHANGED report_file
  /\ dpc' = "done"
  /\ UNCHANGED <<tool, base_raw, head_raw, base_graph, head_graph, diff,
                 base_mermaid, head_mermaid, diff_mermaid, base_sha,
                 output_path, result, arch_vars, readme_vars>>

NextDiff ==
  \/ GD_Exit1 \/ GD_NoChanges \/ GD_ParseGraph \/ GD_DiffGraphs
  \/ GD_RenderDiffSection \/ GD_Output

\* ------------------------------------------------------------------------
\* generate_architecture.main
\* ------------------------------------------------------------------------
\* "if rad_graph_output and os.path.exists(rad_graph_output)"
RadPresent == rad_graph_output.kind \in {"malformed", "json"}

GA_ParseRadGraphOutput ==
  /\ apc = "start"
  /\ RadPresent
  /\ IF rad_graph_output.kind = "json"
     THEN /\ resources' = parse_rad_graph_output(rad_graph_output.data).resources
          /\ connections' = parse_rad_graph_output(rad_graph_output.data).connections
          /\ parsed_by' = "rad"
          /\ apc' = "parsed"
     ELSE \* json.JSONDecodeError: return None, None, None
          /\ apc' = "fallback"
          /\ UNCHANGED <<resources, connections, parsed_by>>
  /\ steps' = Append(steps, "parse_rad_graph_output")
  /\ UNCHANGED <<tool, rad_graph_output, bicep_file, mermaid_block, diff_vars,
                 readme_vars>>

\* A fallback that is taken only when the structured parse was not tried.
NeedsBicep_untried_only == apc = "start" /\ ~RadPresent

\* "if resources is None:"
NeedsBicep == (apc = "start" /\ ~RadPresent) \/ apc = "fallback"

GA_ParseBicep ==
  /\ NeedsBicep
  /\ bicep_file.kind = "file"
  /\ resources' = parse_bicep(bicep_file.blocks).resources
  /\ connections' = parse_bicep(bicep_file.blocks).connections
  /\ parsed_by' = "bicep"
  /\ apc' = "parsed"
  /\ steps' = Append(steps, "parse_bicep")
  /\ UNCHANGED <<tool, rad_graph_output, bicep_file, mermaid_block, diff_vars,
                 readme_vars>>

\* "if not os.path.exists(bicep_path): sys.exit(1)"
GA_Exit1 ==
  /\ NeedsBicep
  /\ bicep_file.kind = "missing"
  /\ apc' = "exit1"
  /\ steps' = Append(steps, "exit1")
  /\ UNCHANGED <<tool, rad_graph_output, bicep_file, resources, connections,
                 parsed_by, mermaid_block, diff_vars,
                 readme_vars>>

GA_GenerateMermaid ==
  /\ apc = "parsed"
  /\ mermaid_block' = generate_mermaid(resources, connections)
  /\ apc' = "rendered"
  /\ steps' = Append(steps, "generate_mermaid")
  /\ UNCHANGED <<tool, rad_graph_output, bicep_file, resources, connections,
                 parsed_by, diff_vars,
                 readme_vars>>

\* A patch step that also follows sys.exit(1).
ReadyToPatch_after_exit == apc \in {"rendered", "exit1"}

\* main reaches update_readme after generate_mermaid has returned.
ReadyToPatch == apc = "rendered"

\* update_readme(readme_path, mermaid_block)
GA_UpdateReadme ==
  /\ ReadyToPatch
  /\ readme_block' = mermaid_text(mermaid_block)
  /\ readme' = update_readme(readme, mermaid_text(mermaid_block))
  /\ readme_writes' = readme_writes + 1
  /\ apc' = "done"
  /\ steps' = Append(steps, "update_readme")
  /\ UNCHANGED <<tool, rad_graph_output, bicep_file, resources, connections,
                 parsed_by, mermaid_block, readme_in, diff_vars>>

NextArch ==
  \/ GA_ParseRadGraphOutput \/ GA_ParseBicep \/ GA_Exit1
  \/ GA_GenerateMermaid \/ GA_UpdateReadme

\* ------------------------------------------------------------------------
\* update_readme applied to a README.md, once per run, run after run
\* ------------------------------------------------------------------------
InitReadme ==
  /\ tool = "update_readme"
  /\ readme_in \in ReadmeDocs
  /\ readme = readme_in
  /\ readme_block \in BlockTexts
  /\ readme_writes = 0
  /\ DiffIdle
  /\ ArchIdle

UR_UpdateReadme ==
  /\ tool = "update_readme"
  /\ readme_writes < MaxWrites
  /\ readme' = update_readme(readme, readme_block)
  /\ readme_writes' = readme_writes + 1
  /\ UNCHANGED <<tool, readme_in, readme_block, diff_vars, arch_vars>>

NextReadme == UR_UpdateReadme

Next == NextDiff \/ NextArch

Spec == Init /\ [][Next]_vars
SpecDiff == InitDiff /\ [][NextDiff]_vars
SpecArch == InitArch /\ [][NextArch]_vars
SpecReadme == InitReadme /\ [][NextReadme]_vars


\* ------------------------------------------------------------------------
\* Properties of diff_graphs
\* ------------------------------------------------------------------------
Diffed == dpc \in {"diffed", "rendered"}

\* The fields of a record, without their order.
FieldSet(rec) == Range(rec)

BaseIds == Keys(base_graph.resources)
HeadIds == Keys(head_graph.resources)
BaseRec(rid) == Get(base_graph.resources, rid, <<>>)
HeadRec(rid) == Get(head_graph.resources, rid, <<>>)

\* The (sourceId, targetId) pairs of the connections of a document that
\* are not dependsOn.
RawPairs(raw) ==
  IF raw.kind # "json" THEN {}
  ELSE {<<Get(raw.data.connections[i], K_sourceId, EmptyStr),
          Get(raw.data.connections[i], K_targetId, EmptyStr)>> :
          i \in {j \in 1..Len(raw.data.connections) :
                   Get(raw.data.connections[j], K_type, NoneVal) # S_dependsOn}}

\* C1: diffing a graph against itself gives empty added, removed and
\* modified sets, an unchanged set of all its resource ids, and no added
\* or removed connections.
C1_SelfDiffIsEmpty ==
  (Diffed /\ base_graph = head_graph) =>
     /\ diff.added = {} /\ diff.removed = {} /\ diff.modified = {}
     /\ diff.unchanged = BaseIds
     /\ diff.added_conns = {} /\ diff.removed_conns = {}

C1_Witness ==
  /\ dpc = "diffed"
  /\ base_graph = head_graph
  /\ Cardinality(BaseIds) = 2
  /\ base_graph.connections # <<>>
  /\ diff.unchanged = BaseIds

\* C2: an id only in head is added, an id only in base is removed, an id
\* in both whose records differ in some field is modified, and an id in
\* both whose records are field-for-field equal is unchanged.
C2_ResourceClassification ==
  Diffed =>
    \A rid \in BaseIds \cup HeadIds :
      /\ (rid \in diff.added) <=> (rid \in HeadIds /\ rid \notin BaseIds)
      /\ (rid \in diff.removed) <=> (rid \in BaseIds /\ rid \notin HeadIds)
      /\ (rid \in diff.modified) <=>
           (rid \in BaseIds /\ rid \in HeadIds
              /\ FieldSet(BaseRec(rid)) # FieldSet(HeadRec(rid)))
      /\ (rid \in diff.unchanged) <=>
           (rid \in BaseIds /\ rid \in HeadIds
              /\ FieldSet(BaseRec(rid)) = FieldSet(HeadRec(rid)))

\* An unchanged record whose keys come in another order in head, next to
\* an added one.
C2_Witness ==
  /\ dpc = "diffed"
  /\ \E rid \in diff.unchanged : BaseRec(rid) # HeadRec(rid)
  /\ diff.added # {}

\* C3: added_conns are the (sourceId, targetId) pairs of head that are not
\* pairs of base and removed_conns the pairs of base that are not pairs of
\* head, compared as identifiers; a connection whose target id changed
\* while its display name stayed the same is in removed_conns under the
\* old pair and in added_conns under the new one.
C3_ConnectionClassification ==
  Diffed =>
    /\ diff.added_conns = {p \in RawPairs(head_raw) : p \notin RawPairs(base_raw)}
    /\ diff.removed_conns = {p \in RawPairs(base_raw) : p \notin RawPairs(head_raw)}
    /\ \A p \in RawPairs(base_raw), q \in RawPairs(head_raw) :
         (/\ p \notin RawPairs(head_raw) /\ q \notin RawPairs(base_raw)
          /\ p[1] = q[1] /\ p[2] # q[2]
          /\ resolve_name(p[2], base_graph.resources)
               = resolve_name(q[2], head_graph.resources))
         => (p \in diff.removed_conns /\ q \in diff.added_conns)

C3_Witness ==
  /\ dpc = "diffed"
  /\ <<I_fe, N_db>> \in diff.removed_conns
  /\ <<I_fe, I_db>> \in diff.added_conns
  /\ resolve_name(N_db, base_graph.resources) = N_db
  /\ resolve_name(I_db, head_graph.resources) = N_db

\* C4: when head is base plus one resource with a new id, with equal
\* records and equal connections, added is that one id and removed,
\* modified, added_conns and removed_conns are empty.
C4_Pre(new) ==
  /\ new \notin BaseIds
  /\ HeadIds = BaseIds \cup {new}
  /\ \A rid \in BaseIds : FieldSet(BaseRec(rid)) = FieldSet(HeadRec(rid))
  /\ Range(head_graph.connections) = Range(base_graph.connections)

C4_OneAddedResource ==
  Diffed =>
    \A new \in HeadIds :
      C4_Pre(new) =>
        /\ diff.added = {new}
        /\ diff.removed = {} /\ diff.modified = {}
        /\ diff.added_conns = {} /\ diff.removed_conns = {}

C4_Witness ==
  /\ dpc = "diffed"
  /\ \E new \in HeadIds : C4_Pre(new) /\ diff.added = {new}
  /\ BaseIds # {}
  /\ base_graph.connections # <<>>


\* ------------------------------------------------------------------------
\* Properties of the categorisers
\* ------------------------------------------------------------------------
Parsed == apc \in {"parsed", "rendered"}

\* C6: every parsed resource record has one of the four categories, and
\* the tag depends on the lower-cased type string alone: parse_bicep,
\* parse_rad_graph_output and categorize give the same tag for its type.
C6_CategoryOfType ==
  Parsed =>
    \A i \in 1..Len(resources) :
      LET r == resources[i] IN
      /\ r.category \in Categories
      /\ r.category = categorize(r.resource_type)
      /\ r.category = bicep_category(r.resource_type)
      /\ r.category = rad_category(r.resource_type)
      /\ r.category = categorize(Lower(r.resource_type))

C6_Witness ==
  /\ apc = "parsed" /\ parsed_by = "bicep"
  /\ \E i, j \in 1..Len(resources) :
       /\ resources[i].resource_type = T_Containers
       /\ resources[i].category = "container"
       /\ resources[j].resource_type = T_sql
       /\ resources[j].category = "datastore"

\* ------------------------------------------------------------------------
\* Properties of the rendered edges
\* ------------------------------------------------------------------------
AllResources == DictUpdate(base_graph.resources, head_graph.resources)

\* The diagrams of graph_diff with the resource dict each was drawn from.
DiffDiagrams ==
  {<<base_mermaid, base_graph.resources>>,
   <<head_mermaid, head_graph.resources>>,
   <<diff_mermaid, AllResources>>}

TypeOf(rid, rs) == Get(Get(rs, rid, <<>>), K_type, EmptyStr)

SymbolicNames == {resources[i].symbolic_name : i \in 1..Len(resources)}

\* C5: both endpoints of every edge statement of generate_mermaid,
\* make_mermaid_graph and make_diff_mermaid are resources of the supplied
\* resource set, and neither has category application.
C5_EdgeEndpoints ==
  /\ apc = "rendered" =>
       \A k \in 1..Len(mermaid_block.edges) :
         LET e == mermaid_block.edges[k] IN
         /\ e.from \in SymbolicNames /\ e.to \in SymbolicNames
         /\ \A i \in 1..Len(resources) :
              resources[i].symbolic_name \in {e.from, e.to}
                => resources[i].category # "application"
  /\ dpc = "rendered" =>
       \A d \in DiffDiagrams :
         \A k \in 1..Len(d[1].edges) :
           LET c == d[1].edges[k].conn IN
           /\ c[1] \in Keys(d[2]) /\ c[2] \in Keys(d[2])
           /\ categorize(TypeOf(c[1], d[2])) # "application"
           /\ categorize(TypeOf(c[2], d[2])) # "application"

\* A target that names a resource of rs: by its id, or by the display
\* name it resolves to.
ResolvedIn(tgt, rs) ==
  \/ tgt \in Keys(rs)
  \/ \E i \in 1..Len(rs) : Get(rs[i][2], K_name, NoneVal) = resolve_name(tgt, rs)

\* C8: no diagram has an edge statement whose target resolves to no
\* resource.
C8_UnresolvedEdgesDropped ==
  /\ apc = "rendered" =>
       \A k \in 1..Len(mermaid_block.edges) :
         mermaid_block.edges[k].to \in SymbolicNames
  /\ dpc = "rendered" =>
       \A d \in DiffDiagrams :
         \A k \in 1..Len(d[1].edges) : ResolvedIn(d[1].edges[k].conn[2], d[2])

\* ------------------------------------------------------------------------
\* Properties of connection resolution
\* ------------------------------------------------------------------------
RadParsed == Parsed /\ parsed_by = "rad"
BicepParsed == Parsed /\ parsed_by = "bicep"

IdToName == rad_id_to_name(rad_graph_output.data.resources, <<>>)

\* The connection objects of the rad document that are not dependsOn.
RadConns ==
  {rad_graph_output.data.connections[i] :
     i \in {j \in 1..Len(rad_graph_output.data.connections) :
              Get(rad_graph_output.data.connections[j], K_type, EmptyStr)
                # S_dependsOn}}

\* The hostname matches a known resource name the way
\* parse_rad_graph_output matches it.
HostnameKnown(hostname, idn) ==
  \E i \in 1..Len(idn) :
    Contains(idn[i][2], hostname) \/ Contains(hostname, idn[i][2])

DisplayNames == {resources[i].display_name : i \in 1..Len(resources)}

\* The URL sources of the blocks whose hostname is no display name, each
\* with the symbolic name of its block.
UnknownUrlSources ==
  UNION {{<<b.symbolic_name, b.conn_sources[j]>> :
            j \in {k \in 1..Len(b.conn_sources) :
                     /\ UrlMatch(b.conn_sources[k])
                     /\ UrlHostname(b.conn_sources[k]) \notin DisplayNames}} :
         b \in Range(bicep_file.blocks)}

\* The connection lists graph_diff renders, each with its diagram and its
\* resource dict.
DiffRenderings ==
  {<<base_mermaid, base_graph.resources, Range(base_graph.connections)>>,
   <<head_mermaid, head_graph.resources, Range(head_graph.connections)>>,
   <<diff_mermaid, AllResources,
     Range(head_graph.connections) \cup Range(base_graph.connections)>>}

NameKnown(name, rs) ==
  \E i \in 1..Len(rs) : Get(rs[i][2], K_name, NoneVal) = name

\* What the three resolvers do with a URL target of unknown hostname.
RadFallsBack(c) ==
  LET t == Get(c, K_targetId, EmptyStr)
      h == UrlHostname(t)
      sn == resolve_source(Get(c, K_sourceId, EmptyStr), IdToName)
  IN /\ resolve_target(t, IdToName) = h
     /\ (sn # EmptyStr /\ sn # h) => [from |-> sn, to |-> h] \in Range(connections)

ResolveNameFallsBack(c, d) ==
  LET h == UrlHostname(c[2])
  IN /\ resolve_name(c[2], d[2]) = h
     /\ (has_changes(diff) /\ edge_emitted(c, d[2])) =>
          \E k \in 1..Len(d[1].edges) :
            d[1].edges[k].conn = c /\ d[1].edges[k].to = safe_node_id(h)

\* C7 as claimed: in parse_rad_graph_output, parse_bicep and resolve_name a
\* URL target whose hostname matches no known resource name resolves to
\* the literal hostname.
C7_UrlFallsBackEverywhere ==
  /\ RadParsed =>
       \A c \in RadConns :
         (/\ UrlMatch(Get(c, K_targetId, EmptyStr))
          /\ ~HostnameKnown(UrlHostname(Get(c, K_targetId, EmptyStr)), IdToName))
         => RadFallsBack(c)
  /\ BicepParsed =>
       \A p \in UnknownUrlSources :
         [from |-> p[1], to |-> UrlHostname(p[2])] \in Range(connections)
  /\ dpc = "rendered" =>
       \A d \in DiffRenderings : \A c \in d[3] :
         (UrlMatch(c[2]) /\ ~NameKnown(UrlHostname(c[2]), d[2]))
         => ResolveNameFallsBack(c, d)

\* The edge from sym to hostname comes from another source of a block sym:
\* a quoted source that is no URL, or a reference.
OtherSourceYields(sym, hostname) ==
  \E b \in Range(bicep_file.blocks) :
    /\ b.symbolic_name = sym
    /\ \/ \E j \in 1..Len(b.conn_sources) :
            ~UrlMatch(b.conn_sources[j]) /\ b.conn_sources[j] = hostname
       \/ hostname \in Range(b.source_refs)

\* C7 as amended: in parse_rad_graph_output and resolve_name a URL target
\* that is not itself a resource id and whose hostname matches no known
\* resource name resolves to the literal hostname; parse_bicep drops the
\* connection instead.
C7_UrlFallsBackOrIsDropped ==
  /\ RadParsed =>
       \A c \in RadConns :
         (/\ UrlMatch(Get(c, K_targetId, EmptyStr))
          /\ ~Has(IdToName, Get(c, K_targetId, EmptyStr))
          /\ ~HostnameKnown(UrlHostname(Get(c, K_targetId, EmptyStr)), IdToName))
         => RadFallsBack(c)
  /\ BicepParsed =>
       \A p \in UnknownUrlSources :
         [from |-> p[1], to |-> UrlHostname(p[2])] \in Range(connections)
           => OtherSourceYields(p[1], UrlHostname(p[2]))
  /\ dpc = "rendered" =>
       \A d \in DiffRenderings : \A c \in d[3] :
         (/\ UrlMatch(c[2]) /\ c[2] \notin Keys(d[2])
          /\ ~NameKnown(UrlHostname(c[2]), d[2]))
         => ResolveNameFallsBack(c, d)

C7_Witness ==
  /\ apc = "parsed" /\ parsed_by = "rad"
  /\ Conn(I_fe, U_uh, S_connection) \in RadConns
  /\ ~HostnameKnown(N_uh, IdToName)
  /\ [from |-> N_fe, to |-> N_uh] \in Range(connections)

\* ------------------------------------------------------------------------
\* The order of the resolution rules
\* ------------------------------------------------------------------------
SuffixHit(t, rid, rname) ==
  EndsWith(rid, <<"/">> \o last_of(t)) \/ rname = last_of(t)

HostHit(t, rid, rname) ==
  Contains(rname, UrlHostname(t)) \/ Contains(UrlHostname(t), rname)

\* Whether a rule matches a target, and what it yields.
RuleMatches(rule, t, idn) ==
  CASE rule = "exact" -> Get(idn, t, EmptyStr) # EmptyStr
    [] rule = "suffix" ->
         FirstValue(idn, LAMBDA rid, rname : SuffixHit(t, rid, rname), EmptyStr)
           # EmptyStr
    [] rule = "template" ->
         ArmMatch(t) /\ \E i \in 1..Len(idn) : idn[i][2] = ArmRefSym(t)
    [] rule = "hostname" ->
         UrlMatch(t)
           /\ FirstValue(idn, LAMBDA rid, rname : HostHit(t, rid, rname), EmptyStr)
                # EmptyStr
    [] rule = "url" -> UrlMatch(t)
    [] rule = "literal" -> TRUE

RuleResult(rule, t, idn) ==
  CASE rule = "exact" -> Get(idn, t, EmptyStr)
    [] rule = "suffix" ->
         FirstValue(idn, LAMBDA rid, rname : SuffixHit(t, rid, rname), EmptyStr)
    [] rule = "template" -> ArmRefSym(t)
    [] rule = "hostname" ->
         FirstValue(idn, LAMBDA rid, rname : HostHit(t, rid, rname), EmptyStr)
    [] rule = "url" ->
         IF RuleMatches("hostname", t, idn)
         THEN FirstValue(idn, LAMBDA rid, rname : HostHit(t, rid, rname), EmptyStr)
         ELSE UrlHostname(t)
    [] rule = "literal" -> IF UrlMatch(t) THEN UrlHostname(t) ELSE last_of(t)

\* The result of the first rule of order that matches.
FirstRule(order, t, idn) ==
  RuleResult(order[CHOOSE i \in 1..Len(order) :
                     /\ RuleMatches(order[i], t, idn)
                     /\ \A j \in 1..(i - 1) : ~RuleMatches(order[j], t, idn)],
             t, idn)

ClaimedOrder == <<"exact", "suffix", "template", "hostname", "literal">>
CodeOrder == <<"exact", "template", "url", "suffix", "literal">>

\* The edges parse_rad_graph_output returns when targets resolve by the
\* rules in the given order.
EdgesByOrder(order) ==
  {e \in {[from |-> resolve_source(Get(c, K_sourceId, EmptyStr), IdToName),
           to |-> FirstRule(order, Get(c, K_targetId, EmptyStr), IdToName)] :
            c \in RadConns} :
     e.from # EmptyStr /\ e.to # EmptyStr /\ e.from # e.to}

\* C9 as claimed: a target resolves by the first matching rule in the
\* order exact id, suffix of the last path segment, template expression,
\* hostname substring, literal.
C9_ClaimedRuleOrder == RadParsed => Range(connections) = EdgesByOrder(ClaimedOrder)

\* C9 as amended: a target resolves by the first matching rule in the
\* order exact id, template expression, URL (hostname substring match, or
\* else the literal hostname), suffix of the last path segment or equal
\* name, literal last segment.
C9_CodeRuleOrder == RadParsed => Range(connections) = EdgesByOrder(CodeOrder)

\* A URL target that the suffix rule matches too resolves to its hostname.
C9_Witness ==
  /\ apc = "parsed" /\ parsed_by = "rad"
  /\ Conn(I_xfe, U_gw_be, S_connection) \in RadConns
  /\ RuleMatches("suffix", U_gw_be, IdToName)
  /\ RuleMatches("url", U_gw_be, IdToName)
  /\ \E i \in 1..Len(connections) : connections[i].to = UrlHostname(U_gw_be)

\* ------------------------------------------------------------------------
\* Self-loops and duplicates
\* ------------------------------------------------------------------------
\* C10: the connection list of parse_rad_graph_output and of parse_bicep
\* has no edge from a resource to itself and no two edges with the same
\* from and to.
C10_NoSelfLoopsNoDuplicates ==
  Parsed =>
    /\ \A i \in 1..Len(connections) : connections[i].from # connections[i].to
    /\ \A i, j \in 1..Len(connections) :
         (connections[i].from = connections[j].from
            /\ connections[i].to = connections[j].to) => i = j

\* ------------------------------------------------------------------------
\* README.md patching
\* ------------------------------------------------------------------------
Patched == tool = "update_readme" /\ readme_writes = 1

\* Positions at which a line of doc starts.
LineStarts(doc) ==
  {i \in 1..Len(doc) : i = 1 \/ doc[i - 1] = "\n"}

\* Position just after the last character of the line that starts at i.
LineEnd(doc, i) ==
  LET nls == {j \in i..Len(doc) : doc[j] = "\n"}
  IN IF nls = {} THEN Len(doc) + 1
     ELSE CHOOSE j \in nls : \A k \in nls : j <= k

LineAt(doc, i) == SubSeq(doc, i, LineEnd(doc, i) - 1)

RECURSIVE RStripWs(_)
RStripWs(s) ==
  IF s # <<>> /\ s[Len(s)] \in Whitespace THEN RStripWs(SubSeq(s, 1, Len(s) - 1))
  ELSE s

\* A Markdown heading line, of any level, whose text is Architecture.
IsArchHeadingLine(line) ==
  \E k \in 1..6 :
    RStripWs(line) = [i \in 1..k |-> "#"] \o Drop(S_arch_heading, 2)

HasArchitectureHeading(doc) ==
  \E i \in LineStarts(doc) : IsArchHeadingLine(LineAt(doc, i))

AppendedSection(block) == NL \o S_arch_heading \o NL \o new_body(block) \o NL

\* C11: patching a document that has no Architecture heading line returns
\* the document unchanged, followed by a new Architecture section that
\* holds the new body.
C11_AppendsWhenNoHeading ==
  (Patched /\ ~HasArchitectureHeading(readme_in)) =>
    readme = readme_in \o AppendedSection(readme_block)

\* Start positions of the level-two heading lines "## Architecture".
ArchSectionStarts(doc) ==
  {i \in LineStarts(doc) : RStripWs(LineAt(doc, i)) = S_arch_heading}

\* Start positions of the level-two heading lines after position h.
LaterHeadings(doc, h) ==
  {i \in LineStarts(doc) : i > h /\ MatchesAt(doc, <<"#", "#", " ">>, i)}

Least(S) == CHOOSE i \in S : \A j \in S : i <= j

\* Number of places at which pat occurs in s.
Occurrences(s, pat) == Cardinality({i \in 1..Len(s) : MatchesAt(s, pat, i)})

\* C12: patching a document that has an Architecture section keeps the text
\* up to and including the heading line and the text from the next
\* level-two heading on, and puts the new body in exactly one place.
C12_ReplacesOnlySectionBody ==
  (Patched /\ ArchSectionStarts(readme_in) # {}) =>
    LET h == Least(ArchSectionStarts(readme_in))
        kept == SubSeq(readme_in, 1, LineEnd(readme_in, h) - 1)
        later == LaterHeadings(readme_in, h)
    IN /\ StartsWith(readme, kept)
       /\ later # {} => EndsWith(readme, Drop(readme_in, Least(later) - 1))
       /\ Occurrences(readme, new_body(readme_block)) = 1

\* ------------------------------------------------------------------------
\* generate_mermaid: edge and linkStyle statements
\* ------------------------------------------------------------------------
Rendered == tool = "generate_architecture" /\ apc \in {"rendered", "done"}

\* C13: there are as many linkStyle statements as edge statements, their
\* indices are 0..n-1 in emission order, and the k-th linkStyle statement
\* comes from the connection of the k-th edge statement.
C13_LinkStylesAligned ==
  Rendered =>
    /\ Len(mermaid_block.linkstyles) = Len(mermaid_block.edges)
    /\ \A k \in 1..Len(mermaid_block.linkstyles) :
         /\ mermaid_block.linkstyles[k].index = k - 1
         /\ k <= Len(mermaid_block.edges)
         /\ mermaid_block.linkstyles[k].conn = mermaid_block.edges[k].conn

\* A connection that gets no edge statement precedes one that does.
C13_Witness ==
  /\ Rendered
  /\ Len(mermaid_block.linkstyles) >= 1
  /\ \E i, j \in 1..Len(connections) :
       /\ i < j
       /\ ~edge_filter(connections[i], resource_map(resources, <<>>))
       /\ edge_filter(connections[j], resource_map(resources, <<>>))

\* ------------------------------------------------------------------------
\* generate_architecture.main: malformed rad output and missing manifest
\* ------------------------------------------------------------------------
ArchRun == tool = "generate_architecture"

C15_MalformedRecovered ==
  (tool = "graph_diff"
     /\ (base_raw.kind = "malformed" \/ head_raw.kind = "malformed")) =>
    dpc # "crashed"

\* ------------------------------------------------------------------------
\* Images and tags
\* ------------------------------------------------------------------------
\* An image reference carries a tag when its last path segment has a colon.
HasTag(image) == \E i \in 1..Len(RSplitLast(image)) : RSplitLast(image)[i] = ":"

\* The text after the last colon.
TagOf(image) == Drop(image, RFindColon(image))

\* C16: a container block with a quoted image value yields a record with
\* that image, and resolve_image_tag gives the tag of the value, or
\* "latest" when the value carries no tag.
C16_ExplicitImageTag ==
  (ArchRun /\ apc \in {"rendered", "done"} /\ parsed_by = "bicep") =>
    \A i \in 1..Len(bicep_file.blocks) :
      LET b == bicep_file.blocks[i] IN
      (bicep_category(b.resource_type) = "container" /\ b.image # NoneVal) =>
        /\ resources[i].image = b.image
        /\ \E k \in 1..Len(mermaid_block.nodes) :
             /\ mermaid_block.nodes[k].nid = b.symbolic_name
             /\ mermaid_block.nodes[k].image = b.image
             /\ mermaid_block.nodes[k].image_tag[2] =
                  IF HasTag(b.image) THEN TagOf(b.image) ELSE S_latest

\* ------------------------------------------------------------------------
\* The unified diff diagram
\* ------------------------------------------------------------------------
DiffRendered == tool = "graph_diff" /\ dpc = "rendered" /\ has_changes(diff)

\* The record of rid that make_diff_mermaid draws: head's, else base's.
ShownRec(rid) == IF rid \in HeadIds THEN HeadRec(rid) ELSE BaseRec(rid)

\* C17: every resource id of base or head that is no application has a
\* node statement with the status class and the label prefix of its
\* classification in the diff.
C17_NodePerResourceId ==
  DiffRendered =>
    \A rid \in BaseIds \cup HeadIds :
      categorize(Get(ShownRec(rid), K_type, EmptyStr)) # "application" =>
        \E k \in 1..Len(diff_mermaid.nodes) :
          /\ diff_mermaid.nodes[k].nid =
               safe_node_id(Get(ShownRec(rid), K_name, S_unknown))
          /\ diff_mermaid.nodes[k].class = diff_status(rid, diff)
          /\ diff_mermaid.nodes[k].label =
               status_prefix(diff_status(rid, diff))
                 \o Get(ShownRec(rid), K_name, S_unknown)

BaseConns == Range(base_graph.connections)
HeadConns == Range(head_graph.connections)

\* The connector that the classification of a (source, target) pair calls
\* for.
ConnectorOf(pair) ==
  IF pair \in HeadConns \ BaseConns THEN "-. new .->"
  ELSE IF pair \in BaseConns \ HeadConns THEN "-. removed .->"
  ELSE "-->"

\* C18: every edge of the unified diagram is drawn for a (source, target)
\* pair of base or head, with the connector of that pair's classification
\* (only in head: new, only in base: removed, in both: normal), and no pair
\* is drawn twice.
C18_EdgeConnectors ==
  DiffRendered =>
    /\ \A k \in 1..Len(diff_mermaid.edges) :
         /\ diff_mermaid.edges[k].conn \in BaseConns \cup HeadConns
         /\ diff_mermaid.edges[k].arrow = ConnectorOf(diff_mermaid.edges[k].conn)
    /\ \A j, k \in 1..Len(diff_mermaid.edges) :
         diff_mermaid.edges[j].conn = diff_mermaid.edges[k].conn => j = k

\* One diagram with a new, a removed and a normal edge.
C18_Witness ==
  /\ DiffRendered
  /\ \E i, j, k \in 1..Len(diff_mermaid.edges) :
       /\ diff_mermaid.edges[i].arrow = "-. new .->"
       /\ diff_mermaid.edges[i].conn \in HeadConns \ BaseConns
       /\ diff_mermaid.edges[j].arrow = "-. removed .->"
       /\ diff_mermaid.edges[j].conn \in BaseConns \ HeadConns
       /\ diff_mermaid.edges[k].arrow = "-->"
       /\ diff_mermaid.edges[k].conn \in BaseConns \cap HeadConns

\* ------------------------------------------------------------------------
\* generate_architecture.main: order of the steps
\* ------------------------------------------------------------------------
\* Positions of a step in the run so far.
StepsNamed(name) == {i \in 1..Len(steps) : steps[i] = name}

ParseSteps == StepsNamed("parse_rad_graph_output") \cup StepsNamed("parse_bicep")

\* C19: a run parses, then renders, then patches.  The structured parse
\* runs at most once; the textual parse runs at most once, and only when
\* the rad graph output is absent or its parse returned nothing; README.md
\* is written at most once, after a parser returned a resource list and the
\* diagram was rendered; a run that exits with status 1 writes nothing.
C19_StepOrder ==
  ArchRun =>
    /\ Cardinality(StepsNamed("parse_rad_graph_output")) <= 1
    /\ Cardinality(StepsNamed("parse_bicep")) <= 1
    /\ Cardinality(StepsNamed("generate_mermaid")) <= 1
    /\ Cardinality(StepsNamed("update_readme")) <= 1
    /\ readme_writes = Cardinality(StepsNamed("update_readme"))
    /\ \A i \in StepsNamed("parse_rad_graph_output") :
         i = 1 /\ rad_graph_output.kind \in {"json", "malformed"}
    /\ \A i \in StepsNamed("parse_bicep") :
         \/ i = 1 /\ rad_graph_output.kind \in {"unset", "missing"}
         \/ i = 2 /\ steps[1] = "parse_rad_graph_output"
              /\ rad_graph_output.kind = "malformed"
    /\ \A i \in StepsNamed("generate_mermaid") :
         /\ parsed_by # "none"
         /\ \E j \in ParseSteps : j = i - 1
    /\ \A i \in StepsNamed("update_readme") :
         /\ parsed_by # "none"
         /\ i - 1 \in StepsNamed("generate_mermaid")
         /\ i = Len(steps)
    /\ StepsNamed("exit1") # {} =>
         /\ readme_writes = 0
         /\ readme = readme_in
         /\ StepsNamed("update_readme") = {}
         /\ steps[Len(steps)] = "exit1"

\* A run that fell back once and wrote README.md once.
C19_Witness ==
  /\ ArchRun
  /\ steps = <<"parse_rad_graph_output", "parse_bicep", "generate_mermaid",
               "update_readme">>
  /\ readme_writes = 1
  /\ readme # readme_in

\* ------------------------------------------------------------------------
\* generate_mermaid: node and click statements
\* ------------------------------------------------------------------------
\* Number of parsed resources with this symbolic name that are drawn
\* (application = FALSE) or left out (application = TRUE).
ResourcesNamed(name, application) ==
  Cardinality({i \in 1..Len(resources) :
                 /\ resources[i].symbolic_name = name
                 /\ (resources[i].category = "application") = application})

NodesFor(name) ==
  Cardinality({k \in 1..Len(mermaid_block.nodes) : mermaid_block.nodes[k].nid = name})

ClicksFor(name) ==
  Cardinality({k \in 1..Len(mermaid_block.clicks) : mermaid_block.clicks[k] = name})

\* C20: the diagram has one node statement and one click statement for each
\* resource that is no application, and none for an application resource.
C20_NodeAndClickPerResource ==
  Rendered =>
    /\ \A i \in 1..Len(resources) :
         LET name == resources[i].symbolic_name IN
         /\ NodesFor(name) = ResourcesNamed(name, FALSE)
         /\ ClicksFor(name) = ResourcesNamed(name, FALSE)
    /\ \A k \in 1..Len(mermaid_block.nodes) :
         ResourcesNamed(mermaid_block.nodes[k].nid, FALSE) >= 1
    /\ \A k \in 1..Len(mermaid_block.clicks) :
         ResourcesNamed(mermaid_block.clicks[k], FALSE) >= 1

\* An application resource next to a resource that is drawn.
C20_Witness ==
  /\ Rendered
  /\ \E i, j \in 1..Len(resources) :
       /\ resources[i].category = "application"
       /\ NodesFor(resources[i].symbolic_name) = 0
       /\ ClicksFor(resources[i].symbolic_name) = 0
       /\ resources[j].category # "application"
       /\ NodesFor(resources[j].symbolic_name) = 1
       /\ ClicksFor(resources[j].symbolic_name) = 1

\* ------------------------------------------------------------------------
\* graph_diff.main: the report
\* ------------------------------------------------------------------------
DiffRun == tool = "graph_diff"

\* The run is over: no step of main is left.
DiffRunOver == dpc \in {"done", "crashed", "exit1"}

Reports == report_file \o report_stdout

\* The report the claim calls for: the fixed one when both texts are absent
\* or empty, else the rendered diff of the two parsed graphs.
ExpectedReport ==
  IF base_raw.kind \in {"none", "empty"} /\ head_raw.kind \in {"none", "empty"}
  THEN render_no_changes
  ELSE render_full_comment(
         render_diff_section(base_graph, head_graph,
                             diff_graphs(base_graph, head_graph)))

\* C21: a run with BASE_SHA set ends with exactly one report, in the
\* DIFF_OUTPUT file when that is set and on standard output otherwise; it is
\* the no-changes report exactly when both graph texts are absent or empty,
\* and else the rendered diff; a run with BASE_SHA unset exits with status 1
\* and writes nothing.
C21_ExactlyOneReport ==
  DiffRun =>
    /\ Len(Reports) <= 1
    /\ (base_sha /\ DiffRunOver) =>
         /\ Len(Reports) = 1
         /\ Len(report_file) = (IF output_path THEN 1 ELSE 0)
         /\ Reports[1] = ExpectedReport
         /\ Reports[1].kind = "no_changes" <=>
              (base_raw.kind \in {"none", "empty"}
                 /\ head_raw.kind \in {"none", "empty"})
    /\ ~base_sha => (dpc \in {"start", "exit1"} /\ Reports = <<>>)

\* ------------------------------------------------------------------------
\* The four resource sets of a diff
\* ------------------------------------------------------------------------
RECURSIVE SumCounts(_)
SumCounts(summary) ==
  IF summary = <<>> THEN 0 ELSE Head(summary).count + SumCounts(Tail(summary))

\* The report holds a summary line.
HasSummary ==
  /\ dpc \in {"rendered", "done"}
  /\ result.kind = "diff"
  /\ result.section.changes

\* C22: added, removed, modified and unchanged are pairwise disjoint and
\* together are the resource ids of base and head; the counts of the
\* summary line add up to the number of those ids.
C22_SetsPartitionIds ==
  (DiffRun /\ dpc \in {"diffed", "rendered", "done"}) =>
    /\ diff.added \cap diff.removed = {}
    /\ diff.added \cap diff.modified = {}
    /\ diff.added \cap diff.unchanged = {}
    /\ diff.removed \cap diff.modified = {}
    /\ diff.removed \cap diff.unchanged = {}
    /\ diff.modified \cap diff.unchanged = {}
    /\ diff.added \cup diff.removed \cup diff.modified \cup diff.unchanged
         = BaseIds \cup HeadIds
    /\ HasSummary =>
         SumCounts(result.section.summary) = Cardinality(BaseIds \cup HeadIds)

\* A report whose summary counts an added, a removed and a modified id.
C22_Witness ==
  /\ DiffRun
  /\ HasSummary
  /\ diff.added # {} /\ diff.removed # {} /\ diff.modified # {}
  /\ Len(result.section.summary) = 3
  /\ Cardinality(BaseIds \cup HeadIds) = 3

\* ------------------------------------------------------------------------
\* Patching README.md again
\* ------------------------------------------------------------------------
\* C23: patching a document twice with the same diagram block gives the
\* document that patching it once gives.
C23_PatchIsIdempotent ==
  (tool = "update_readme" /\ readme_writes = 2) =>
    readme = update_readme(readme_in, readme_block)

====
